---- MODULE Spec2Model ----
(***************************************************************************)
(* ChatProvider (context/ChatContext.tsx): the socket effect with its      *)
(* path negotiation, the inbound event handlers, the room list and the     *)
(* room / message / presence / unread operations, driven by the            *)
(* credentials of AuthProvider.                                            *)
(*                                                                         *)
(* Every handler, timer callback and API call runs to completion on the    *)
(* event loop, so each is one action.  React state is the state of the     *)
(* latest render; what a closure captured when the effect ran is kept in   *)
(* the effect's record (effects[g]).                                       *)
(***************************************************************************)
EXTENDS Integers, Sequences, FiniteSets, TLC

\* ---------------------------------------------------------------- constants
NumPaths == 5                  \* SOCKET_PATHS.length
Paths == 0..(NumPaths - 1)     \* indices into SOCKET_PATHS

\* ------------------------------------------------------------------- bounds
MaxEffects == 1                \* runs of the socket effect (logins)
MaxLog == 2                    \* length of the message log
MaxUnread == 2                 \* value of the unread counter
MaxFetch == 2                  \* history fetches in flight
MaxHandlers == 2               \* setupEventHandlers registrations per socket
MaxSessions == 2               \* runs of the socket effect (logins) with presence
MaxTyping == 2                 \* pending typing timers

\* ------------------------------------------------------------------- inputs
Users == {"userA", "userB"}
Rooms == {"r1", "r2"}
Texts == {"", " ", "hi"}
MsgIds == {"m1", "m2"}         \* Message.id of the messages the server pushes
None == "none"

VARIABLES
    user,          \* AuthState.user / token (set and cleared together)
    goodPaths,     \* environment: the mount paths the backend answers on
    effects,       \* one closure record per run of the socket effect
    sockets,       \* every Socket created by io(), in creation order
    timers,        \* pending setTimeout(..., 1000) callbacks, FIFO
    socket,        \* useState: socket (index into sockets, 0 = null)
    isConnected,   \* useState: isConnected
    currentRoom,   \* useState: currentRoom (None = null)
    messages,      \* useState: messages
    unreadCount,   \* useState: unreadCount
    fetches,       \* history fetches awaiting their response, by room
    chatRooms,     \* useState: chatRooms
    roomFetches,   \* fetchChatRooms calls awaiting their response, by user
    typingUsers,   \* useState: typingUsers
    typingTimers,  \* pending setTimeout(..., 3000) callbacks, FIFO
    lastOp,        \* the call or event the last step handled, and what it emitted
    mounted,          \* the ChatPage component is mounted
    selectedRoom,     \* ChatPage useState: selectedRoom (None = null)
    newMessage,       \* ChatPage useState: newMessage
    typingTimeoutRef, \* ChatPage useRef: typingTimeoutRef, with its timer
    emitted           \* the signals the last ChatPage handler emitted, in order

vars == <<user, goodPaths, effects, sockets, timers, socket,
          isConnected, currentRoom, messages, unreadCount, fetches,
          chatRooms, roomFetches, typingUsers, typingTimers, lastOp,
          mounted, selectedRoom, newMessage, typingTimeoutRef, emitted>>

pageState == <<mounted, selectedRoom, newMessage, typingTimeoutRef, emitted>>

roomState == <<chatRooms, roomFetches>>

presenceState == <<typingUsers, typingTimers>>

chatState == <<socket, isConnected, currentRoom, messages, unreadCount>>

\* ------------------------------------------------------------ pure helpers
\* The backend mounts its endpoint on at most one of the candidate paths.
PathChoices == {{}} \cup {{k} : k \in Paths}

\* io(API_URL, {path: SOCKET_PATHS[pathIndex] || '/socket.io',
\*              reconnection: false, forceNew: true})
tryConnection(g, chain, pathIndex) ==
    [gen |-> g, chain |-> chain,
     path |-> IF pathIndex \in Paths THEN pathIndex ELSE 0,
     st |-> "connecting", reconnection |-> FALSE, nh |-> 0, rooms |-> {}]

Open(s) == s.st \in {"connecting", "connected", "disconnected"}

\* the socket has emitted 'connect' at least once
EverConnected(s) == s.st \in {"connected", "disconnected", "closed"}

\* socket?.close(): a null handle or a dead socket is left alone; "aborted"
\* is a socket closed before it ever connected
Close(socks, i) ==
    IF i = 0 \/ ~Open(socks[i]) THEN socks
    ELSE [socks EXCEPT ![i].st =
              IF @ = "connecting" THEN "aborted" ELSE "closed"]

\* close() of a connected socket runs its 'disconnect' listener, which the
\* attemptConnection sockets and the second chain's first socket have
FiresDisconnect(socks, i) ==
    /\ i # 0
    /\ socks[i].st = "connected"
    /\ socks[i].chain \in {"attempt", "second"}

\* the effect's cleanup: finalSocket?.close(); currentSocket?.close()
CleanupSockets(socks, e) == Close(Close(socks, e.finalSocket), e.currentSocket)

CleanupDisconnects(socks, e) ==
    \/ FiresDisconnect(socks, e.finalSocket)
    \/ FiresDisconnect(Close(socks, e.finalSocket), e.currentSocket)

\* the live effect, 0 when no effect with a cleanup is mounted
LiveEffect == IF user = None THEN 0 ELSE Len(effects)

\* a call or event with its arguments; emit is TRUE when the step called
\* socket.emit (the signal is the one the operation names)
Op(name, room, text, emit) ==
    [op |-> name, room |-> room, text |-> text, emit |-> emit]

\* typingTimeoutRef.current: null; `pending` tells whether the timer whose
\* id the ref holds is still to fire, `room` and `ready` are the selectedRoom
\* and the `socket && isConnected` of the stopTyping its callback closes over
NullRef == [set |-> FALSE, pending |-> FALSE, room |-> None, ready |-> FALSE]

\* setupEventHandlers(connectedSocket): one more set of listeners on it,
\* setSocket(connectedSocket), finalSocket = connectedSocket
setupEventHandlers(socks, c) == [socks EXCEPT ![c].nh = @ + 1]

\* ---------------------------------------------------------------- initial
Init ==
    /\ user = None
    /\ goodPaths \in PathChoices
    /\ effects = <<>>
    /\ sockets = <<>>
    /\ timers = <<>>
    /\ socket = 0
    /\ isConnected = FALSE
    /\ currentRoom = None
    /\ messages = <<>>
    /\ unreadCount = 0
    /\ fetches = <<>>
    /\ chatRooms = <<>>
    /\ roomFetches = <<>>
    /\ typingUsers = <<>>
    /\ typingTimers = <<>>
    /\ lastOp = Op("init", None, "", FALSE)
    /\ mounted = FALSE
    /\ selectedRoom = None
    /\ newMessage = ""
    /\ typingTimeoutRef = NullRef
    /\ emitted = <<>>

\* ------------------------------------------------- credentials and effect
\* LOGIN_SUCCESS with new credentials: fetchChatRooms gets a new identity, so
\* the effect that calls it runs (one more rooms request); React runs the
\* cleanup of the socket effect of the previous credentials, then the effect
\* body (two sockets on path 0: attemptConnection() and the second chain).
LOGIN_SUCCESS(u) ==
    /\ u \in Users
    /\ u # user
    /\ LET g == LiveEffect
           cleaned == IF g = 0 THEN sockets
                      ELSE CleanupSockets(sockets, effects[g])
           disc == g # 0 /\ CleanupDisconnects(sockets, effects[g])
           n == Len(sockets)
           g2 == Len(effects) + 1
       IN /\ sockets' = cleaned \o <<tryConnection(g2, "attempt", 0),
                                     tryConnection(g2, "second", 0)>>
          /\ effects' = Append(effects,
                 [user |-> u, currentRoom |-> currentRoom, pathIndex |-> 0,
                  currentSocket |-> n + 2, finalSocket |-> 0])
          /\ isConnected' = IF disc THEN FALSE ELSE isConnected
    /\ user' = u
    /\ roomFetches' = Append(roomFetches, u)
    /\ lastOp' = Op("login", None, "", FALSE)
    /\ UNCHANGED <<chatRooms, presenceState>>
    /\ UNCHANGED pageState
    /\ UNCHANGED <<goodPaths, timers, socket, currentRoom, messages,
                   unreadCount, fetches>>

\* a login of the negotiation and message specifications
Login(u) == Len(effects) < MaxEffects /\ LOGIN_SUCCESS(u)

\* a login of the presence specifications
SessionLogin(u) == Len(effects) < MaxSessions /\ LOGIN_SUCCESS(u)

\* the login that follows the page load
FirstLogin(u) == effects = <<>> /\ LOGIN_SUCCESS(u)

\* LOGOUT: the cleanup runs, the effect body does nothing (no user, no token)
Logout ==
    /\ user # None
    /\ LET e == effects[LiveEffect]
       IN /\ sockets' = CleanupSockets(sockets, e)
          /\ isConnected' = IF CleanupDisconnects(sockets, e) THEN FALSE
                            ELSE isConnected
    /\ user' = None
    /\ lastOp' = Op("logout", None, "", FALSE)
    /\ UNCHANGED <<roomState, presenceState>>
    /\ UNCHANGED pageState
    /\ UNCHANGED <<goodPaths, effects, timers, socket, currentRoom,
                   messages, unreadCount, fetches>>

\* -------------------------------------------------------- transport events
\* socket.io-client as the provider uses it: a socket created with
\* reconnection: false emits 'connect' or 'connect_error' once; a connected
\* socket emits 'disconnect' when its transport drops or when close() is
\* called on it; listeners stay registered for the life of the socket.
\* What the 'connect' listener of socket i does; also run on a reconnect.
OnConnect(i) ==
    LET s == sockets[i]
        g == s.gen
        c == effects[g].currentSocket
        conn == [sockets EXCEPT ![i].st = "connected"]
        recon == [conn EXCEPT ![c].reconnection = TRUE]
    IN /\ isConnected' = TRUE
       /\ CASE s.chain = "attempt" ->
                 /\ sockets' = recon
                 /\ UNCHANGED <<effects, socket>>
            [] s.chain = "second" ->
                 /\ sockets[c].nh < MaxHandlers
                 /\ sockets' = setupEventHandlers(recon, c)
                 /\ socket' = c
                 /\ effects' = [effects EXCEPT ![g].finalSocket = c]
            [] s.chain = "retry" ->
                 /\ sockets[c].nh < MaxHandlers
                 /\ sockets' = setupEventHandlers(conn, c)
                 /\ socket' = c
                 /\ effects' = [effects EXCEPT ![g].finalSocket = c]
       /\ UNCHANGED <<roomState, presenceState>>
       /\ UNCHANGED pageState
       /\ UNCHANGED <<user, goodPaths, timers, currentRoom,
                      messages, unreadCount, fetches>>

\* 'connect' on a socket that is connecting on a path the backend serves
Connect(i) ==
    /\ i \in 1..Len(sockets)
    /\ sockets[i].st = "connecting"
    /\ sockets[i].path \in goodPaths
    /\ OnConnect(i)
    /\ lastOp' = Op("connect", None, "", FALSE)

\* the manager of a dropped socket whose reconnection option was switched
\* on connects again: 'connect' is emitted once more
Reconnect(i) ==
    /\ i \in 1..Len(sockets)
    /\ sockets[i].st = "disconnected"
    /\ sockets[i].reconnection
    /\ sockets[i].path \in goodPaths
    /\ OnConnect(i)
    /\ lastOp' = Op("reconnect", None, "", FALSE)

\* pathIndex++ of the connect_error listeners
NextPathIndex_stuck(pathIndex) == pathIndex

NextPathIndex(pathIndex) == pathIndex + 1

\* 'connect_error' on a socket that is connecting on a path nobody serves
ConnectError(i) ==
    /\ i \in 1..Len(sockets)
    /\ sockets[i].st = "connecting"
    /\ sockets[i].path \notin goodPaths
    /\ LET s == sockets[i]
           g == s.gen
           e == effects[g]
           failed == [sockets EXCEPT ![i].st = "failed"]
           next == NextPathIndex(e.pathIndex)
       IN /\ effects' = [effects EXCEPT ![g].pathIndex = next]
          /\ CASE s.chain = "attempt" ->
                    /\ sockets' = Close(failed, e.currentSocket)
                    /\ IF next < NumPaths
                       THEN /\ timers' = Append(timers,
                                     [gen |-> g, kind |-> "attempt"])
                            /\ isConnected' =
                                 IF FiresDisconnect(failed, e.currentSocket)
                                 THEN FALSE ELSE isConnected
                       ELSE /\ timers' = timers
                            /\ isConnected' = FALSE
               [] s.chain = "second" ->
                    /\ sockets' = Close(failed, e.currentSocket)
                    /\ IF next < NumPaths
                       THEN /\ timers' = Append(timers,
                                     [gen |-> g, kind |-> "retry"])
                            /\ isConnected' =
                                 IF FiresDisconnect(failed, e.currentSocket)
                                 THEN FALSE ELSE isConnected
                       ELSE /\ timers' = timers
                            /\ isConnected' = FALSE
               [] s.chain = "retry" ->
                    /\ sockets' = failed
                    /\ timers' = timers
                    /\ isConnected' = IF next >= NumPaths THEN FALSE
                                      ELSE isConnected
    /\ lastOp' = Op("connect_error", None, "", FALSE)
    /\ UNCHANGED <<roomState, presenceState>>
    /\ UNCHANGED pageState
    /\ UNCHANGED <<user, goodPaths, socket, currentRoom, messages,
                   unreadCount, fetches>>

\* 'disconnect' on a connected socket whose transport dropped
Disconnect(i) ==
    /\ i \in 1..Len(sockets)
    /\ sockets[i].st = "connected"
    /\ sockets' = [sockets EXCEPT ![i].st = "disconnected", ![i].rooms = {}]
    /\ isConnected' = IF sockets[i].chain \in {"attempt", "second"}
                      THEN FALSE ELSE isConnected
    /\ lastOp' = Op("disconnect", None, "", FALSE)
    /\ UNCHANGED <<roomState, presenceState>>
    /\ UNCHANGED pageState
    /\ UNCHANGED <<user, goodPaths, effects, timers, socket,
                   currentRoom, messages, unreadCount, fetches>>

\* The oldest pending 1000 ms timer fires: attemptConnection, or the retry
\* closure of the second chain.  Both read the effect's pathIndex when they
\* run; neither looks at whether the effect was cleaned up.
TimerFire ==
    /\ timers # <<>>
    /\ LET t == Head(timers)
           g == t.gen
           e == effects[g]
           n == Len(sockets)
       IN IF t.kind = "attempt" /\ e.pathIndex >= NumPaths
          THEN UNCHANGED <<sockets, effects>>
          ELSE /\ sockets' = Append(sockets,
                      tryConnection(g, t.kind, e.pathIndex))
               /\ effects' = [effects EXCEPT ![g].currentSocket = n + 1]
    /\ timers' = Tail(timers)
    /\ lastOp' = Op("timer", None, "", FALSE)
    /\ UNCHANGED <<roomState, presenceState>>
    /\ UNCHANGED pageState
    /\ UNCHANGED <<user, goodPaths, socket, isConnected,
                   currentRoom, messages, unreadCount, fetches>>

\* ------------------------------------------------------------ chat helpers
\* src: "live" for a pushed message, "fetch" for one of a history response,
\* "snapshot" for one of a chat_history event
Message(r, src, id) == [room_id |-> r, src |-> src, id |-> id]

\* GET /chat/history/{roomId}: the stored messages of that room
History(r) == <<Message(r, "fetch", "m0")>>

\* text.trim() of ChatPage.handleSendMessage
Trim(t) == IF t = " " THEN "" ELSE t

\* the guard every operation of the provider starts with: socket && isConnected
Ready == socket # 0 /\ isConnected

\* { room_id, messages } of a chat_history event for room r
Snapshot(r) == <<Message(r, "snapshot", "m0")>>

\* a ChatRoom of the rooms response: its id and its unread_count
ChatRoom(id, n) == [id |-> id, unread_count |-> n]

\* data.chat_rooms of GET /student/chat-rooms or /recruiter/chat-rooms
RoomLists == {<<>>, <<ChatRoom("r1", 2)>>,
              <<ChatRoom("r1", 2), ChatRoom("r2", 1)>>}

\* prev.filter(id => id !== userId)
Without(seq, userId) == SelectSeq(seq, LAMBDA id : id # userId)

\* seq without its k-th element
Remove(seq, k) == SubSeq(seq, 1, k - 1) \o SubSeq(seq, k + 1, Len(seq))

\* n copies of m appended to log
RECURSIVE AppendTimes(_, _, _)
AppendTimes(log, m, n) ==
    IF n = 0 THEN log ELSE AppendTimes(Append(log, m), m, n - 1)

\* --------------------------------------------------------- provider calls
\* a joinRoom that tests the socket handle only, not isConnected
joinRoom_unguarded(roomId) ==
    /\ roomId \in Rooms
    /\ IF socket # 0
       THEN /\ Len(fetches) < MaxFetch
            /\ sockets' = [sockets EXCEPT ![socket].rooms = @ \cup {roomId}]
            /\ currentRoom' = roomId
            /\ messages' = <<>>
            /\ fetches' = Append(fetches, roomId)
            /\ lastOp' = Op("joinRoom", roomId, "", TRUE)
       ELSE /\ lastOp' = Op("joinRoom", roomId, "", FALSE)
            /\ UNCHANGED <<sockets, currentRoom, messages, fetches>>
    /\ UNCHANGED <<roomState, presenceState>>
    /\ UNCHANGED pageState
    /\ UNCHANGED <<user, goodPaths, effects, timers, socket,
                   isConnected, unreadCount>>

\* joinRoom: inside `if (socket && isConnected)`, emit join_room, set the
\* current room, clear the log and start the history fetch
joinRoom(roomId) ==
    /\ roomId \in Rooms
    /\ IF Ready
       THEN /\ Len(fetches) < MaxFetch
            /\ sockets' = [sockets EXCEPT ![socket].rooms = @ \cup {roomId}]
            /\ currentRoom' = roomId
            /\ messages' = <<>>
            /\ fetches' = Append(fetches, roomId)
            /\ lastOp' = Op("joinRoom", roomId, "", TRUE)
       ELSE /\ lastOp' = Op("joinRoom", roomId, "", FALSE)
            /\ UNCHANGED <<sockets, currentRoom, messages, fetches>>
    /\ UNCHANGED <<roomState, presenceState>>
    /\ UNCHANGED pageState
    /\ UNCHANGED <<user, goodPaths, effects, timers, socket,
                   isConnected, unreadCount>>

\* the continuation of joinRoom after `await fetch(...)`: response.ok with
\* a body, or a failed response / thrown error (logged only)
historyResponse(k, ok, body) ==
    /\ k \in 1..Len(fetches)
    /\ body \in {<<>>, History(fetches[k])}
    /\ fetches' = SubSeq(fetches, 1, k - 1) \o
                  SubSeq(fetches, k + 1, Len(fetches))
    /\ messages' = IF ok THEN body ELSE messages
    /\ lastOp' = Op(IF ok THEN "historyOk" ELSE "historyFail",
                    fetches[k], IF ok THEN "" ELSE "logged", FALSE)
    /\ UNCHANGED <<roomState, presenceState>>
    /\ UNCHANGED pageState
    /\ UNCHANGED <<user, goodPaths, effects, sockets, timers, socket,
                   isConnected, currentRoom, unreadCount>>

leaveRoom(roomId) ==
    /\ roomId \in Rooms
    /\ IF Ready
       THEN /\ sockets' = [sockets EXCEPT ![socket].rooms = @ \ {roomId}]
            /\ currentRoom' = None
            /\ lastOp' = Op("leaveRoom", roomId, "", TRUE)
       ELSE /\ lastOp' = Op("leaveRoom", roomId, "", FALSE)
            /\ UNCHANGED <<sockets, currentRoom>>
    /\ UNCHANGED <<roomState, presenceState>>
    /\ UNCHANGED pageState
    /\ UNCHANGED <<user, goodPaths, effects, timers, socket,
                   isConnected, messages, unreadCount, fetches>>

sendMessage(roomId, message) ==
    /\ roomId \in Rooms
    /\ message \in Texts
    /\ lastOp' = Op("sendMessage", roomId, message, Ready)
    /\ UNCHANGED <<roomState, presenceState>>
    /\ UNCHANGED pageState
    /\ UNCHANGED <<user, goodPaths, effects, sockets, timers, socket,
                   isConnected, currentRoom, messages, unreadCount, fetches>>

startTyping(roomId) ==
    /\ roomId \in Rooms
    /\ lastOp' = Op("startTyping", roomId, "", Ready)
    /\ UNCHANGED <<roomState, presenceState>>
    /\ UNCHANGED pageState
    /\ UNCHANGED <<user, goodPaths, effects, sockets, timers, socket,
                   isConnected, currentRoom, messages, unreadCount, fetches>>

stopTyping(roomId) ==
    /\ roomId \in Rooms
    /\ lastOp' = Op("stopTyping", roomId, "", Ready)
    /\ UNCHANGED <<roomState, presenceState>>
    /\ UNCHANGED pageState
    /\ UNCHANGED <<user, goodPaths, effects, sockets, timers, socket,
                   isConnected, currentRoom, messages, unreadCount, fetches>>

markAsRead_noReset(roomId) ==
    /\ roomId \in Rooms
    /\ lastOp' = Op("markAsRead", roomId, "", Ready)
    /\ UNCHANGED <<roomState, presenceState>>
    /\ UNCHANGED pageState
    /\ UNCHANGED <<user, goodPaths, effects, sockets, timers, socket,
                   isConnected, currentRoom, messages, unreadCount, fetches>>

markAsRead(roomId) ==
    /\ roomId \in Rooms
    /\ lastOp' = Op("markAsRead", roomId, "", Ready)
    /\ unreadCount' = IF Ready THEN 0 ELSE unreadCount
    /\ UNCHANGED <<roomState, presenceState>>
    /\ UNCHANGED pageState
    /\ UNCHANGED <<user, goodPaths, effects, sockets, timers, socket,
                   isConnected, currentRoom, messages, fetches>>

clearMessages ==
    /\ messages' = <<>>
    /\ lastOp' = Op("clearMessages", None, "", FALSE)
    /\ UNCHANGED <<roomState, presenceState>>
    /\ UNCHANGED pageState
    /\ UNCHANGED <<user, goodPaths, effects, sockets, timers, socket,
                   isConnected, currentRoom, unreadCount, fetches>>

\* ---------------------------------------------------------------- rooms
\* fetchChatRooms(): returns at once without credentials, else sends the
\* request of the current user
fetchChatRooms ==
    /\ Len(roomFetches) < MaxFetch
    /\ roomFetches' = IF user = None THEN roomFetches
                      ELSE Append(roomFetches, user)
    /\ lastOp' = Op("fetchChatRooms", None, "", FALSE)
    /\ UNCHANGED <<chatRooms, presenceState>>
    /\ UNCHANGED pageState
    /\ UNCHANGED <<user, goodPaths, effects, sockets, timers, socket,
                   isConnected, currentRoom, messages, unreadCount, fetches>>

\* a continuation that empties the list when the request failed
roomsResponse_reset(k, ok, data) ==
    /\ k \in 1..Len(roomFetches)
    /\ data \in RoomLists
    /\ roomFetches' = Remove(roomFetches, k)
    /\ chatRooms' = IF ok THEN data ELSE <<>>
    /\ lastOp' = Op(IF ok THEN "roomsOk" ELSE "roomsFail",
                    None, IF ok THEN "" ELSE "logged", FALSE)
    /\ UNCHANGED presenceState
    /\ UNCHANGED pageState
    /\ UNCHANGED <<user, goodPaths, effects, sockets, timers, socket,
                   isConnected, currentRoom, messages, unreadCount, fetches>>

\* the continuation of fetchChatRooms after `await fetch(...)`: response.ok
\* with the list, or a failed response / thrown error (logged only)
roomsResponse(k, ok, data) ==
    /\ k \in 1..Len(roomFetches)
    /\ data \in RoomLists
    /\ roomFetches' = Remove(roomFetches, k)
    /\ chatRooms' = IF ok THEN data ELSE chatRooms
    /\ lastOp' = Op(IF ok THEN "roomsOk" ELSE "roomsFail",
                    None, IF ok THEN "" ELSE "logged", FALSE)
    /\ UNCHANGED presenceState
    /\ UNCHANGED pageState
    /\ UNCHANGED <<user, goodPaths, effects, sockets, timers, socket,
                   isConnected, currentRoom, messages, unreadCount, fetches>>

\* ------------------------------------------------------- inbound messages
\* a listener that puts the message in front of the log
new_message_prepend(i, r, id) ==
    /\ i \in 1..Len(sockets)
    /\ r \in Rooms
    /\ id \in MsgIds
    /\ sockets[i].st = "connected"
    /\ sockets[i].nh > 0
    /\ LET n == sockets[i].nh
           unread == r # effects[sockets[i].gen].currentRoom
       IN /\ Len(messages) + n <= MaxLog
          /\ unread => unreadCount + n <= MaxUnread
          /\ messages' = AppendTimes(<<>>, Message(r, "live", id), n) \o messages
          /\ unreadCount' = IF unread THEN unreadCount + n ELSE unreadCount
    /\ lastOp' = Op("new_message", r, id, FALSE)
    /\ UNCHANGED <<roomState, presenceState>>
    /\ UNCHANGED pageState
    /\ UNCHANGED <<user, goodPaths, effects, sockets, timers, socket,
                   isConnected, currentRoom, fetches>>

\* 'new_message' on socket i: each set of listeners setupEventHandlers put
\* on it appends the message and compares its room with the currentRoom the
\* effect's closure captured
new_message(i, r, id) ==
    /\ i \in 1..Len(sockets)
    /\ r \in Rooms
    /\ id \in MsgIds
    /\ sockets[i].st = "connected"
    /\ sockets[i].nh > 0
    /\ LET n == sockets[i].nh
           unread == r # effects[sockets[i].gen].currentRoom
       IN /\ Len(messages) + n <= MaxLog
          /\ unread => unreadCount + n <= MaxUnread
          /\ messages' = AppendTimes(messages, Message(r, "live", id), n)
          /\ unreadCount' = IF unread THEN unreadCount + n ELSE unreadCount
    /\ lastOp' = Op("new_message", r, id, FALSE)
    /\ UNCHANGED <<roomState, presenceState>>
    /\ UNCHANGED pageState
    /\ UNCHANGED <<user, goodPaths, effects, sockets, timers, socket,
                   isConnected, currentRoom, fetches>>

\* 'chat_history' on socket i: each set of listeners replaces the log when
\* the event's room is the currentRoom the effect's closure captured
chat_history(i, r) ==
    /\ i \in 1..Len(sockets)
    /\ r \in Rooms
    /\ sockets[i].st = "connected"
    /\ sockets[i].nh > 0
    /\ messages' = IF r = effects[sockets[i].gen].currentRoom
                   THEN Snapshot(r) ELSE messages
    /\ lastOp' = Op("chat_history", r, "", FALSE)
    /\ UNCHANGED <<roomState, presenceState>>
    /\ UNCHANGED pageState
    /\ UNCHANGED <<user, goodPaths, effects, sockets, timers, socket,
                   isConnected, currentRoom, unreadCount, fetches>>

\* --------------------------------------------------------------- presence
\* 'user_typing' on socket i: each set of listeners, when the event's room
\* is the captured currentRoom and the sender is not the captured user,
\* moves the sender to the end of typingUsers and starts a 3000 ms timer
user_typing(i, userId, roomId) ==
    /\ i \in 1..Len(sockets)
    /\ userId \in Users
    /\ roomId \in Rooms
    /\ sockets[i].st = "connected"
    /\ sockets[i].nh > 0
    /\ LET e == effects[sockets[i].gen]
           n == sockets[i].nh
       IN IF roomId = e.currentRoom /\ userId # e.user
          THEN /\ Len(typingTimers) + n <= MaxTyping
               /\ typingUsers' = Append(Without(typingUsers, userId), userId)
               /\ typingTimers' =
                     AppendTimes(typingTimers,
                                 [userId |-> userId, roomId |-> roomId,
                                  stopped |-> FALSE], n)
          ELSE UNCHANGED <<typingUsers, typingTimers>>
    /\ lastOp' = Op("user_typing", roomId, userId, FALSE)
    /\ UNCHANGED roomState
    /\ UNCHANGED pageState
    /\ UNCHANGED <<user, goodPaths, effects, sockets, timers, socket,
                   isConnected, currentRoom, messages, unreadCount, fetches>>

\* 'user_stopped_typing' on socket i: the sender is filtered out when the
\* event's room is the captured currentRoom.  No timer is cleared; `stopped`
\* only records, on the sender's pending timers, that the filter has run.
user_stopped_typing(i, userId, roomId) ==
    /\ i \in 1..Len(sockets)
    /\ userId \in Users
    /\ roomId \in Rooms
    /\ sockets[i].st = "connected"
    /\ sockets[i].nh > 0
    /\ IF roomId = effects[sockets[i].gen].currentRoom
       THEN /\ typingUsers' = Without(typingUsers, userId)
            /\ typingTimers' = [k \in 1..Len(typingTimers) |->
                                   IF typingTimers[k].userId = userId
                                   THEN [typingTimers[k] EXCEPT !.stopped = TRUE]
                                   ELSE typingTimers[k]]
       ELSE UNCHANGED <<typingUsers, typingTimers>>
    /\ lastOp' = Op("user_stopped_typing", roomId, userId, FALSE)
    /\ UNCHANGED roomState
    /\ UNCHANGED pageState
    /\ UNCHANGED <<user, goodPaths, effects, sockets, timers, socket,
                   isConnected, currentRoom, messages, unreadCount, fetches>>

\* a timer callback that leaves typingUsers as it is
typing_timeout_keep ==
    /\ typingTimers # <<>>
    /\ typingUsers' = typingUsers
    /\ typingTimers' = Tail(typingTimers)
    /\ lastOp' = Op("typing_timeout", None, Head(typingTimers).userId, FALSE)
    /\ UNCHANGED roomState
    /\ UNCHANGED pageState
    /\ UNCHANGED <<user, goodPaths, effects, sockets, timers, socket,
                   isConnected, currentRoom, messages, unreadCount, fetches>>

\* the oldest pending 3000 ms timer fires: its user is filtered out
typing_timeout ==
    /\ typingTimers # <<>>
    /\ typingUsers' = Without(typingUsers, Head(typingTimers).userId)
    /\ typingTimers' = Tail(typingTimers)
    /\ lastOp' = Op("typing_timeout", None, Head(typingTimers).userId, FALSE)
    /\ UNCHANGED roomState
    /\ UNCHANGED pageState
    /\ UNCHANGED <<user, goodPaths, effects, sockets, timers, socket,
                   isConnected, currentRoom, messages, unreadCount, fetches>>

\* ---------------------------------------------------------------- ChatPage
\* socket.emit(signal, {room_id})
Signal(signal, r) == [signal |-> signal, room |-> r]

\* what a provider call emits: nothing unless `socket && isConnected`
Emit(ready, signal, r) == IF ready THEN <<Signal(signal, r)>> ELSE <<>>

\* getOtherParticipant(roomId) finds the room in chatRooms
HasReceiver(roomId) ==
    \E k \in 1..Len(chatRooms) : chatRooms[k].id = roomId

\* the page mounts: useState initial values; the mount effect calls
\* fetchChatRooms(), the join effect finds selectedRoom null
mountChatPage ==
    /\ ~mounted
    /\ user # None
    /\ Len(roomFetches) < MaxFetch
    /\ mounted' = TRUE
    /\ selectedRoom' = None
    /\ newMessage' = ""
    /\ typingTimeoutRef' = NullRef
    /\ emitted' = <<>>
    /\ roomFetches' = Append(roomFetches, user)
    /\ lastOp' = Op("mountChatPage", None, "", FALSE)
    /\ UNCHANGED <<chatRooms, presenceState>>
    /\ UNCHANGED <<user, goodPaths, effects, sockets, timers, socket,
                   isConnected, currentRoom, messages, unreadCount, fetches>>

\* the user opens the page once the sockets of the session have settled
OpenChatPage ==
    /\ \A i \in 1..Len(sockets) : sockets[i].st # "connecting"
    /\ mountChatPage

\* handleRoomSelect(roomId): setSelectedRoom, markAsRead; then, when the
\* selected room changed, the cleanup of the typing effect (clearTimeout, the
\* ref keeps the id) and the join effect (joinRoom if currentRoom differs)
handleRoomSelect(roomId) ==
    /\ mounted
    /\ roomId \in Rooms
    /\ LET changed == roomId # selectedRoom
           joins == changed /\ currentRoom # roomId /\ Ready
       IN /\ joins => Len(fetches) < MaxFetch
          /\ selectedRoom' = roomId
          /\ unreadCount' = IF Ready THEN 0 ELSE unreadCount
          /\ typingTimeoutRef' =
                IF changed /\ typingTimeoutRef.set
                THEN [typingTimeoutRef EXCEPT !.pending = FALSE]
                ELSE typingTimeoutRef
          /\ sockets' = IF joins
                        THEN [sockets EXCEPT ![socket].rooms = @ \cup {roomId}]
                        ELSE sockets
          /\ currentRoom' = IF joins THEN roomId ELSE currentRoom
          /\ messages' = IF joins THEN <<>> ELSE messages
          /\ fetches' = IF joins THEN Append(fetches, roomId) ELSE fetches
          /\ emitted' = Emit(Ready, "mark_as_read", roomId)
                           \o Emit(joins, "join_room", roomId)
          /\ lastOp' = Op("handleRoomSelect", roomId, "", Ready)
    /\ UNCHANGED <<mounted, newMessage>>
    /\ UNCHANGED <<roomState, presenceState>>
    /\ UNCHANGED <<user, goodPaths, effects, timers, socket, isConnected>>

\* handleInputChange: setNewMessage(value); with a room selected and
\* isConnected, startTyping(selectedRoom), clearTimeout of the timer in the
\* ref, and a new 2000 ms timer whose id goes into the ref
handleInputChange(value) ==
    /\ mounted
    /\ value \in Texts
    /\ newMessage' = value
    /\ IF selectedRoom # None /\ isConnected
       THEN /\ emitted' = Emit(Ready, "start_typing", selectedRoom)
            /\ typingTimeoutRef' = [set |-> TRUE, pending |-> TRUE,
                                    room |-> selectedRoom, ready |-> Ready]
       ELSE /\ emitted' = <<>>
            /\ typingTimeoutRef' = typingTimeoutRef
    /\ lastOp' = Op("handleInputChange", selectedRoom, value,
                    selectedRoom # None /\ Ready)
    /\ UNCHANGED <<mounted, selectedRoom>>
    /\ UNCHANGED <<roomState, presenceState, chatState>>
    /\ UNCHANGED <<user, goodPaths, effects, sockets, timers, fetches>>

\* the 2000 ms callback: stopTyping(selectedRoom) of the render that started
\* the timer, then typingTimeoutRef.current = null
inactivityTimeout ==
    /\ mounted
    /\ typingTimeoutRef.pending
    /\ emitted' = Emit(typingTimeoutRef.ready, "stop_typing",
                       typingTimeoutRef.room)
    /\ typingTimeoutRef' = NullRef
    /\ lastOp' = Op("inactivityTimeout", typingTimeoutRef.room, "",
                    typingTimeoutRef.ready)
    /\ UNCHANGED <<mounted, selectedRoom, newMessage>>
    /\ UNCHANGED <<roomState, presenceState, chatState>>
    /\ UNCHANGED <<user, goodPaths, effects, sockets, timers, fetches>>

\* handleSendMessage: returns on a blank text, no room, no connection or no
\* receiver; else, with an id in the ref, clearTimeout, ref = null and
\* stopTyping(selectedRoom); then sendMessage and setNewMessage('')
handleSendMessage ==
    /\ mounted
    /\ IF \/ Trim(newMessage) = ""
          \/ selectedRoom = None
          \/ ~isConnected
          \/ ~HasReceiver(selectedRoom)
       THEN /\ emitted' = <<>>
            /\ lastOp' = Op("handleSendMessage", selectedRoom, newMessage, FALSE)
            /\ UNCHANGED <<newMessage, typingTimeoutRef>>
       ELSE /\ emitted' =
                 Emit(typingTimeoutRef.set /\ Ready, "stop_typing", selectedRoom)
                    \o Emit(Ready, "send_message", selectedRoom)
            /\ typingTimeoutRef' = NullRef
            /\ newMessage' = ""
            /\ lastOp' = Op("handleSendMessage", selectedRoom,
                            Trim(newMessage), Ready)
    /\ UNCHANGED <<mounted, selectedRoom>>
    /\ UNCHANGED <<roomState, presenceState, chatState>>
    /\ UNCHANGED <<user, goodPaths, effects, sockets, timers, fetches>>

PageNext ==
    \/ mountChatPage
    \/ \E r \in Rooms : handleRoomSelect(r)
    \/ \E t \in Texts : handleInputChange(t)
    \/ inactivityTimeout
    \/ handleSendMessage

RoomNext ==
    \/ fetchChatRooms
    \/ \E k \in 1..Len(roomFetches), ok \in BOOLEAN, data \in RoomLists :
          roomsResponse(k, ok, data)
    \/ \E i \in 1..Len(sockets), r \in Rooms : chat_history(i, r)

PresenceNext ==
    \/ \E i \in 1..Len(sockets), u \in Users, r \in Rooms :
          user_typing(i, u, r)
    \/ \E i \in 1..Len(sockets), u \in Users, r \in Rooms :
          user_stopped_typing(i, u, r)
    \/ typing_timeout

ChatNext ==
    \/ \E r \in Rooms : joinRoom(r)
    \/ \E k \in 1..Len(fetches), ok \in BOOLEAN :
          \E body \in {<<>>, History(fetches[k])} : historyResponse(k, ok, body)
    \/ \E r \in Rooms : leaveRoom(r)
    \/ \E r \in Rooms, t \in Texts : sendMessage(r, t)
    \/ \E r \in Rooms : startTyping(r)
    \/ \E r \in Rooms : stopTyping(r)
    \/ \E r \in Rooms : markAsRead(r)
    \/ clearMessages
    \/ \E i \in 1..Len(sockets), r \in Rooms, id \in MsgIds :
          new_message(i, r, id)

ConnNext ==
    \/ \E u \in Users : Login(u)
    \/ Logout
    \/ \E i \in 1..Len(sockets) : Connect(i)
    \/ \E i \in 1..Len(sockets) : Reconnect(i)
    \/ \E i \in 1..Len(sockets) : ConnectError(i)
    \/ \E i \in 1..Len(sockets) : Disconnect(i)
    \/ TimerFire

Next == ConnNext \/ ChatNext \/ RoomNext \/ PresenceNext \/ PageNext

\* The whole provider.  The specifications below are this one with the
\* backend fixed or with the operations a property does not depend on left
\* out.
Spec == Init /\ [][Next]_vars

\* The negotiation alone: credentials, transport events and timers, against
\* every backend of PathChoices.
SpecNeg == Init /\ [][ConnNext]_vars

\* A backend that serves none of the candidate paths: no socket connects.
InitFail == Init /\ goodPaths = {}

FailNext ==
    \/ \E u \in Users : Login(u)
    \/ Logout
    \/ \E i \in 1..Len(sockets) : ConnectError(i)
    \/ TimerFire

SpecFail == InitFail /\ [][FailNext]_vars

\* A backend that serves the standard path '/socket.io': no attempt fails,
\* so no connect_error is delivered and no retry timer is ever scheduled.
InitChat == Init /\ goodPaths = {0}

\* The rooms and the message log of such a session: the operations and
\* events that write currentRoom or messages.
ChatSessionNext ==
    \/ \E u \in Users : Login(u)
    \/ Logout
    \/ \E i \in 1..Len(sockets) : Connect(i)
    \/ \E i \in 1..Len(sockets) : Reconnect(i)
    \/ \E i \in 1..Len(sockets) : Disconnect(i)
    \/ \E r \in Rooms : joinRoom(r)
    \/ \E k \in 1..Len(fetches), ok \in BOOLEAN :
          \E body \in {<<>>, History(fetches[k])} : historyResponse(k, ok, body)
    \/ \E r \in Rooms : leaveRoom(r)
    \/ clearMessages
    \/ \E i \in 1..Len(sockets), r \in Rooms, id \in MsgIds :
          new_message(i, r, id)
    \/ \E i \in 1..Len(sockets), r \in Rooms : chat_history(i, r)

SpecChat == InitChat /\ [][ChatSessionNext]_vars

\* The outbound signals of such a session: the operations that only emit,
\* and those that decide socket && isConnected and the current room.
SendNext ==
    \/ \E u \in Users : Login(u)
    \/ Logout
    \/ \E i \in 1..Len(sockets) : Connect(i)
    \/ \E i \in 1..Len(sockets) : Reconnect(i)
    \/ \E i \in 1..Len(sockets) : Disconnect(i)
    \/ \E r \in Rooms : joinRoom(r)
    \/ \E r \in Rooms : leaveRoom(r)
    \/ \E r \in Rooms, t \in Texts : sendMessage(r, t)
    \/ \E r \in Rooms : startTyping(r)
    \/ \E r \in Rooms : stopTyping(r)

SpecSend == InitChat /\ [][SendNext]_vars

\* The arrival of pushed messages in the rooms joined by one session.
LogNext ==
    \/ \E u \in Users : FirstLogin(u)
    \/ Logout
    \/ \E i \in 1..Len(sockets) : Connect(i)
    \/ \E i \in 1..Len(sockets) : Reconnect(i)
    \/ \E i \in 1..Len(sockets) : Disconnect(i)
    \/ \E r \in Rooms : joinRoom(r)
    \/ \E i \in 1..Len(sockets), r \in Rooms, id \in MsgIds :
          new_message(i, r, id)

SpecLog == InitChat /\ [][LogNext]_vars

\* The room list and the two fetches of one session: the rooms request and
\* its response, joinRoom and the history response, and markAsRead.
FetchNext ==
    \/ \E u \in Users : FirstLogin(u)
    \/ Logout
    \/ \E i \in 1..Len(sockets) : Connect(i)
    \/ \E i \in 1..Len(sockets) : Disconnect(i)
    \/ fetchChatRooms
    \/ \E k \in 1..Len(roomFetches), ok \in BOOLEAN, data \in RoomLists :
          roomsResponse(k, ok, data)
    \/ \E r \in Rooms : joinRoom(r)
    \/ \E k \in 1..Len(fetches), ok \in BOOLEAN :
          \E body \in {<<>>, History(fetches[k])} : historyResponse(k, ok, body)
    \/ \E r \in Rooms : markAsRead(r)

SpecFetch == InitChat /\ [][FetchNext]_vars

\* Presence across sessions: the provider outlives a logout, so the effect of
\* the next login captures the room joined in the session before.  Every
\* pending 3000 ms timer is run by the event loop.
TypingNext ==
    \/ \E u \in Users : SessionLogin(u)
    \/ Logout
    \/ \E i \in 1..Len(sockets) : Connect(i)
    \/ \E r \in Rooms : joinRoom(r)
    \/ \E r \in Rooms : leaveRoom(r)
    \/ PresenceNext

SpecTyping == InitChat /\ [][TypingNext]_vars /\ WF_vars(typing_timeout)

\* Presence with no typing-stopped signal ever delivered: only the timers
\* take users out of the typing set.
ExpiryNext ==
    \/ \E u \in Users : SessionLogin(u)
    \/ \E i \in 1..Len(sockets) : Connect(i)
    \/ \E r \in Rooms : joinRoom(r)
    \/ \E i \in 1..Len(sockets), u \in Users, r \in Rooms :
          user_typing(i, u, r)
    \/ typing_timeout

SpecExpiry == InitChat /\ [][ExpiryNext]_vars /\ WF_vars(typing_timeout)

\* The unread counter of one such session: the operations that write it
\* (new_message, markAsRead) and those that decide socket && isConnected.
ReadNext ==
    \/ \E u \in Users : FirstLogin(u)
    \/ Logout
    \/ \E i \in 1..Len(sockets) : Connect(i)
    \/ \E i \in 1..Len(sockets) : Reconnect(i)
    \/ \E i \in 1..Len(sockets) : Disconnect(i)
    \/ \E i \in 1..Len(sockets), r \in Rooms, id \in MsgIds :
          new_message(i, r, id)
    \/ \E r \in Rooms : markAsRead(r)

SpecRead == InitChat /\ [][ReadNext]_vars

\* The chat page of one session, opened once the session's sockets have
\* settled.  The event loop runs the page's pending 2000 ms timer.
ChatPageNext ==
    \/ \E u \in Users : FirstLogin(u)
    \/ \E i \in 1..Len(sockets) : Connect(i)
    \/ \E i \in 1..Len(sockets) : Disconnect(i)
    \/ OpenChatPage
    \/ \E k \in 1..Len(roomFetches), ok \in BOOLEAN, data \in RoomLists :
          roomsResponse(k, ok, data)
    \/ \E k \in 1..Len(fetches), ok \in BOOLEAN :
          \E body \in {<<>>, History(fetches[k])} : historyResponse(k, ok, body)
    \/ \E r \in Rooms : handleRoomSelect(r)
    \/ \E t \in Texts : handleInputChange(t)
    \/ inactivityTimeout
    \/ handleSendMessage

SpecPage == InitChat /\ [][ChatPageNext]_vars /\ WF_vars(inactivityTimeout)

\* ----------------------------------------------------------------- claims
\* C1: joinRoom(A), then joinRoom(B) before A's history fetch resolves: once
\* the current room is B, the log never holds A's fetched history snapshot.
C1_NoStaleHistory ==
    currentRoom # None =>
        \A k \in 1..Len(messages) :
            messages[k].src = "fetch" => messages[k].room_id = currentRoom

\* C2: every new-message event raises the unread counter by exactly 1 when
\* its room differs from the current room at arrival, and leaves it
\* unchanged when its room is the current room.
C2_UnreadPerMessage ==
    [][lastOp'.op = "new_message" =>
          unreadCount' = unreadCount +
              (IF lastOp'.room # currentRoom THEN 1 ELSE 0)]_vars

\* C3: an inbound message is appended to the log if and only if its room is
\* the currently joined room (a message for another room leaves the log as
\* it is).
C3_AppendIffCurrentRoom ==
    [][lastOp'.op = "new_message" =>
          messages' = IF lastOp'.room = currentRoom
                      THEN Append(messages,
                               Message(lastOp'.room, "live", lastOp'.text))
                      ELSE messages]_vars

\* C4 as stated: markAsRead(roomId) leaves the unread counter at 0 in every
\* state it is called in, connected or not.
C4_AlwaysZero ==
    [][lastOp'.op = "markAsRead" => unreadCount' = 0]_vars

\* C4 as amended: markAsRead(roomId) leaves the unread counter at 0, for
\* every prior value, when a socket is held and the session is connected;
\* called otherwise it leaves the counter as it was.
C4_ZeroWhenReady ==
    [][lastOp'.op = "markAsRead" =>
          unreadCount' = IF Ready THEN 0 ELSE unreadCount]_vars

\* markAsRead ran connected after messages had been counted
C4_Witness ==
    /\ lastOp = Op("markAsRead", "r1", "", TRUE)
    /\ messages # <<>>
    /\ unreadCount = 0

\* C5: sendMessage emits nothing and changes no state when the session is
\* not connected, the text trims to empty, or roomId is not the current room.
C5_SendRejected ==
    [][(/\ lastOp'.op = "sendMessage"
        /\ \/ ~Ready
           \/ Trim(lastOp'.text) = ""
           \/ lastOp'.room # currentRoom)
       => (~lastOp'.emit /\ UNCHANGED chatState)]_vars

\* sockets that are connecting or connected
OpenSockets ==
    {i \in 1..Len(sockets) : sockets[i].st \in {"connecting", "connected"}}

\* C6: at most one socket is open (connecting or connected) at any time;
\* the effect never has two sockets alive at once.
C6_OneSocket == Cardinality(OpenSockets) <= 1

\* attempts of effect g on path p that reported connect_error
Failed(g, p) ==
    {i \in 1..Len(sockets) : /\ sockets[i].gen = g
                             /\ sockets[i].path = p
                             /\ sockets[i].st = "failed"}

\* effect g has no attempt in flight and no retry pending
NegotiationOver(g) ==
    /\ \A i \in 1..Len(sockets) :
          sockets[i].gen = g => sockets[i].st # "connecting"
    /\ \A k \in 1..Len(timers) : timers[k].gen # g

\* C7: when only path k is served, the session connects on path k after
\* exactly one failed attempt on each of the paths before k and no other.
C7_ExactlyKMinusOne ==
    \A k \in Paths : \A g \in 1..Len(effects) :
        (goodPaths = {k} /\ g = LiveEffect) =>
            /\ \A i \in 1..Len(sockets) :
                  (sockets[i].gen = g /\ sockets[i].st = "connected") =>
                      /\ sockets[i].path = k
                      /\ \A p \in Paths :
                            Cardinality(Failed(g, p)) = IF p < k THEN 1 ELSE 0
            /\ NegotiationOver(g) =>
                  \E i \in 1..Len(sockets) :
                      /\ sockets[i].gen = g
                      /\ sockets[i].path = k
                      /\ EverConnected(sockets[i])

\* C8: a timer starts the attempt on candidate i+1 only after the attempt on
\* candidate i reported connect_error, and starts none once a socket of the
\* effect has connected.
C8_NextOnlyAfterError ==
    [][(lastOp'.op = "timer" /\ Len(sockets') > Len(sockets)) =>
          LET s == sockets'[Len(sockets')]
          IN /\ s.path > 0 =>
                   \E j \in 1..Len(sockets) :
                       /\ sockets[j].gen = s.gen
                       /\ sockets[j].path = s.path - 1
                       /\ sockets[j].st = "failed"
             /\ \A j \in 1..Len(sockets) :
                   sockets[j].gen = s.gen => ~EverConnected(sockets[j])]_vars

\* sockets created by effect g
Attempts(g) == {i \in 1..Len(sockets) : sockets[i].gen = g}

\* C9: when every candidate path fails, each effect makes a bounded number
\* of attempts (no more than NumPaths + 1 sockets) and the session is, and
\* stays, disconnected.
C9_BoundedAndDisconnected ==
    /\ isConnected = FALSE
    /\ \A g \in 1..Len(effects) : Cardinality(Attempts(g)) <= NumPaths + 1

\* an effect ran out of candidates: pathIndex passed the last path, nothing
\* is in flight, and every path was tried
C9_Witness ==
    \E g \in 1..Len(effects) :
        /\ effects[g].pathIndex >= NumPaths
        /\ NegotiationOver(g)
        /\ Cardinality(Attempts(g)) = NumPaths + 1
        /\ isConnected = FALSE

\* C10: reconnection is off on a socket that is still connecting and on on
\* every socket that is connected.
C10_ReconnectionAfterConnect ==
    \A i \in 1..Len(sockets) :
        /\ sockets[i].st = "connecting" => ~sockets[i].reconnection
        /\ sockets[i].st = "connected" => sockets[i].reconnection

\* userId is listed in seq
InSeq(seq, userId) == \E k \in 1..Len(seq) : seq[k] = userId

\* C11: every user added to the typing set is eventually removed from it
\* with no typing-stopped signal needed: the user's auto-expiry timer fires
\* and the user is then out of the set.
C11_TypingExpires ==
    \A u \in Users :
        InSeq(typingUsers, u) ~>
            (/\ lastOp.op = "typing_timeout"
             /\ lastOp.text = u
             /\ ~InSeq(typingUsers, u))

\* a typing-started event has put its sender into the typing set, the
\* sender's timer is pending and no typing-stopped signal has come
C11_Witness ==
    /\ lastOp.op = "user_typing"
    /\ InSeq(typingUsers, lastOp.text)
    /\ \E k \in 1..Len(typingTimers) : typingTimers[k].userId = lastOp.text
    /\ \A k \in 1..Len(typingTimers) : ~typingTimers[k].stopped

\* C12: a typing-stopped signal for the joined room removes its sender from
\* the typing set at once, and a timer of that sender which was pending when
\* a typing-stopped signal removed the sender leaves the typing set unchanged
\* when it fires.
C12_StopThenTimerHarmless ==
    [][/\ (/\ lastOp'.op = "user_stopped_typing"
           /\ lastOp'.room = currentRoom
           /\ InSeq(typingUsers, lastOp'.text))
          => ~InSeq(typingUsers', lastOp'.text)
       /\ (lastOp'.op = "typing_timeout" /\ Head(typingTimers).stopped)
          => typingUsers' = typingUsers]_vars

\* the rooms the server has this client in: those a connected socket was told
\* to join and not told to leave
JoinedRooms ==
    UNION {sockets[i].rooms :
              i \in {j \in 1..Len(sockets) : sockets[j].st = "connected"}}

\* C13: at most one room is joined at any time: joinRoom(B) called while room
\* A # B is joined leaves A (the client is no longer a member of A), makes B
\* the current room and leaves the message log empty.
C13_JoinLeavesPrevious ==
    [][(/\ lastOp'.op = "joinRoom"
        /\ currentRoom # None
        /\ currentRoom # lastOp'.room)
       => (/\ currentRoom \notin JoinedRooms'
           /\ Cardinality(JoinedRooms') <= 1
           /\ currentRoom' = lastOp'.room
           /\ messages' = <<>>)]_vars

\* C16: joinRoom(roomId) with roomId already the current room is a no-op: no
\* join signal is emitted, the log is not cleared, no history fetch starts.
C16_RejoinNoOp ==
    [][(lastOp'.op = "joinRoom" /\ lastOp'.room = currentRoom)
       => (/\ ~lastOp'.emit
           /\ messages' = messages
           /\ fetches' = fetches)]_vars

\* C17: leaveRoom(roomId) with roomId different from the current room leaves
\* the current room unchanged.
C17_LeaveOnlyCurrent ==
    [][(lastOp'.op = "leaveRoom" /\ lastOp'.room # currentRoom)
       => currentRoom' = currentRoom]_vars

\* C19: between room switches, a message pushed for the joined room stays in
\* the log; the history backfill does not drop a live message appended
\* between the join and the backfill response.
C19_LiveMessagesKept ==
    [][(lastOp'.op \notin {"joinRoom", "leaveRoom", "clearMessages"})
       => \A k \in 1..Len(messages) :
             (messages[k].src = "live" /\ messages[k].room_id = currentRoom)
                => \E j \in 1..Len(messages') : messages'[j] = messages[k]]_vars

\* C20: a chat_history event replaces the log if and only if its room is the
\* room joined at the moment the event arrives.
C20_SnapshotIffJoined ==
    [][lastOp'.op = "chat_history" =>
          messages' = IF lastOp'.room = currentRoom
                      THEN Snapshot(lastOp'.room) ELSE messages]_vars

\* C14: messages pushed for the joined room appear in the log in the order the
\* transport delivered them: a delivery keeps every entry of the log where it
\* is and puts its message after all of them (M1 delivered before M2 implies
\* M1 precedes M2 in the log).
C14_ArrivalOrder ==
    [][lastOp'.op = "new_message" =>
          LET m == Message(lastOp'.room, "live", lastOp'.text)
          IN /\ Len(messages') > Len(messages)
             /\ SubSeq(messages', 1, Len(messages)) = messages
             /\ \A k \in (Len(messages) + 1)..Len(messages') :
                   messages'[k] = m]_vars

\* M1 then M2 were delivered for r1 while r1 was joined
C14_Witness ==
    /\ currentRoom = "r1"
    /\ lastOp = Op("new_message", "r1", "m2", FALSE)
    /\ messages = <<Message("r1", "live", "m1"), Message("r1", "live", "m2")>>

\* C15: the unread display of a room is cleared by markAsRead of that room
\* and by nothing else: joinRoom changes no unread count, and markAsRead(r1),
\* called connected, sets r1's unread_count to zero and leaves every other
\* room's unread_count unchanged.
C15_MarkAsReadClearsRoom ==
    [][/\ lastOp'.op = "joinRoom" =>
             (chatRooms' = chatRooms /\ unreadCount' = unreadCount)
       /\ (lastOp'.op = "markAsRead" /\ Ready) =>
             /\ Len(chatRooms') = Len(chatRooms)
             /\ \A k \in 1..Len(chatRooms) :
                   /\ chatRooms'[k].id = chatRooms[k].id
                   /\ chatRooms'[k].unread_count =
                         IF chatRooms[k].id = lastOp'.room THEN 0
                         ELSE chatRooms[k].unread_count]_vars

\* C18: a failed rooms request leaves the room list as it was; a failed
\* history fetch leaves the current room and the message log as they were;
\* both are caught and logged, and change nothing else of the chat state.
C18_FailSoft ==
    [][lastOp'.op \in {"roomsFail", "historyFail"} =>
          /\ lastOp'.text = "logged"
          /\ chatRooms' = chatRooms
          /\ currentRoom' = currentRoom
          /\ messages' = messages
          /\ UNCHANGED chatState]_vars

\* a rooms request failed with a list in place, in a session that has a room
\* joined and no history pending
C18_Witness ==
    /\ lastOp.op = "roomsFail"
    /\ chatRooms = <<ChatRoom("r1", 2), ChatRoom("r2", 1)>>
    /\ currentRoom = "r1"
    /\ fetches = <<>>

\* seq lists no user twice
NoDuplicates(seq) ==
    \A j, k \in 1..Len(seq) : seq[j] = seq[k] => j = k

\* C21: a typing-started event for the currently joined room adds its sender
\* to the typing set unless the sender is the local user; the local user is
\* never in the typing set, and no user is listed in it twice.
C21_TypingAddsSender ==
    [][/\ (lastOp'.op = "user_typing" /\ lastOp'.room = currentRoom) =>
             typingUsers' = IF lastOp'.text = user THEN typingUsers
                            ELSE Append(Without(typingUsers, lastOp'.text),
                                        lastOp'.text)
       /\ ~InSeq(typingUsers', user')
       /\ NoDuplicates(typingUsers')]_vars

\* the timers of userId that are pending behind the oldest timer
LaterTimers(userId) ==
    {k \in 2..Len(typingTimers) : typingTimers[k].userId = userId}

\* C22: the auto-expiry removes a user's entry only after a full quiet window
\* since that user's most recent typing-started signal: a timer that fires
\* while a later timer of the same user is pending (a signal less than one
\* window old), with no typing-stopped signal in between, leaves the user in
\* the typing set.
C22_ExpiryAfterQuietWindow ==
    [][(/\ lastOp'.op = "typing_timeout"
        /\ InSeq(typingUsers, lastOp'.text)
        /\ \E k \in LaterTimers(lastOp'.text) : ~typingTimers[k].stopped)
       => InSeq(typingUsers', lastOp'.text)]_vars

\* the room of the typing-started event that last added userId
EntryRoom(userId) ==
    LET ks == {k \in 1..Len(typingTimers) : typingTimers[k].userId = userId}
    IN IF ks = {} THEN None
       ELSE typingTimers[CHOOSE k \in ks : \A j \in ks : j <= k].roomId

\* C29: the typing set only contains users typing in the currently joined
\* room: after joinRoom(B) or leaveRoom no user added by a typing-started
\* event for the room joined before is left in it.
C29_TypingSetOfCurrentRoom ==
    [][(/\ lastOp'.op \in {"joinRoom", "leaveRoom"}
        /\ currentRoom' # currentRoom)
       => \A k \in 1..Len(typingUsers') :
             EntryRoom(typingUsers'[k]) = currentRoom']_vars

\* C23: after a transport disconnect or a connection-error event the session
\* is flagged disconnected (isConnected = FALSE), and a sendMessage,
\* startTyping, stopTyping or markAsRead call made while the session is
\* flagged disconnected emits nothing.
C23_DisconnectedDropsCalls ==
    [][/\ lastOp'.op \in {"disconnect", "connect_error"} => ~isConnected'
       /\ (/\ lastOp'.op \in {"sendMessage", "startTyping", "stopTyping",
                              "markAsRead"}
           /\ ~isConnected)
          => ~lastOp'.emit]_vars

\* C26: once the socket effect of some credentials is torn down, no socket
\* that effect created is open, and none of its retry timers opens one.
C26_TeardownClosesAll ==
    \A i \in 1..Len(sockets) :
        sockets[i].gen # LiveEffect => ~Open(sockets[i])

\* C27: isConnected = TRUE implies that the socket held in state is non-null
\* and is connected, and a disconnect or error of another socket never sets
\* isConnected to FALSE while the socket held in state is connected.
C27_FlagAgreesWithHandle ==
    /\ [](isConnected => (socket # 0 /\ sockets[socket].st = "connected"))
    /\ [][(/\ lastOp'.op \in {"disconnect", "connect_error"}
           /\ isConnected
           /\ socket # 0
           /\ sockets'[socket].st = "connected")
          => isConnected']_vars

\* C24: joinRoom called while the session is not connected is a silent
\* no-op: no join signal is emitted, no history fetch is started, and the
\* call returns with the current room, the message log and the rest of the
\* chat state unchanged.
C24_JoinWhileDisconnected ==
    [][(lastOp'.op = "joinRoom" /\ ~isConnected)
       => (/\ ~lastOp'.emit
           /\ fetches' = fetches
           /\ currentRoom' = currentRoom
           /\ messages' = messages
           /\ UNCHANGED <<chatState, sockets>>)]_vars

\* joinRoom(r2) was called after the connection dropped, with r1 joined and
\* a message in the log
C24_Witness ==
    /\ lastOp = Op("joinRoom", "r2", "", FALSE)
    /\ ~isConnected
    /\ socket # 0
    /\ currentRoom = "r1"
    /\ messages # <<>>

\* C25: each new-message event delivered by the transport is appended to the
\* message log exactly once, also on a socket that has disconnected and
\* reconnected.
C25_AppendedOnce ==
    [][lastOp'.op = "new_message" =>
          messages' = Append(messages,
                             Message(lastOp'.room, "live", lastOp'.text))]_vars

\* C28: when the authenticated user changes or logs out, the message log,
\* the current room, the typing set, the unread counter and the room list
\* hold nothing of the previous user's session, and a rooms response whose
\* request was made for a previous user is not stored.
C28_NoDataOfPreviousUser ==
    [][/\ (lastOp'.op \in {"login", "logout"} /\ user # None)
          => (/\ messages' = <<>>
              /\ currentRoom' = None
              /\ typingUsers' = <<>>
              /\ unreadCount' = 0
              /\ chatRooms' = <<>>)
       /\ (/\ lastOp'.op = "roomsOk"
           /\ \A k \in 1..Len(roomFetches) : roomFetches[k] # user)
          => chatRooms' = chatRooms]_vars

\* C30: in the chat page every start-typing signal emitted for a room is
\* eventually followed by a stop-typing signal for that room, also when the
\* user selects another room while the inactivity timer is pending; and a
\* message sent with the timer pending is preceded by the stop-typing signal.
C30_StartThenStop ==
    /\ \A r \in Rooms :
          (\E k \in 1..Len(emitted) : emitted[k] = Signal("start_typing", r))
             ~> (\E k \in 1..Len(emitted) : emitted[k] = Signal("stop_typing", r))
    /\ [][(/\ lastOp'.op = "handleSendMessage"
           /\ typingTimeoutRef.pending
           /\ \E k \in 1..Len(emitted') : emitted'[k].signal = "send_message")
          => emitted' = <<Signal("stop_typing", selectedRoom),
                          Signal("send_message", selectedRoom)>>]_vars

====
